---- MODULE Spec2Model ----
(***************************************************************************)
(* types-not-docs: extraction of exported TypeScript declarations          *)
(* (parser.ts), rendering of the documentation model as markdown           *)
(* (generator.ts) and the run of the command-line driver (cli.ts).         *)
(*                                                                         *)
(* A string is a sequence of characters, a character a one-character       *)
(* TLA+ string, so that toLowerCase, trim, the regular-expression          *)
(* replacements and path.basename are computed character by character.     *)
(* undefined is the value None where a string is expected and NoList       *)
(* where a list of strings is expected.                                    *)
(***************************************************************************)
EXTENDS Naturals, Sequences, FiniteSets, TLC

VARIABLES
    pc,                 \* position of the call under study: "start" | "done"
    anchorIn,           \* toAnchor: the argument of the first call
    anchorOut,          \* toAnchor: the value returned by the latest call
    anchorCalls,        \* toAnchor: number of calls made so far
    files,              \* generateMarkdown: the ParsedFile list passed in
    title,              \* generateMarkdown: options.title, None when absent
    allInterfaces,      \* generateMarkdown: pooled {item, sourceFile} records
    allTypeAliases,
    allFunctions,
    duplicateNames,     \* generateMarkdown: result of findDuplicateNames
    lines,              \* generateMarkdown: the line list at the return
    markdown,           \* generateMarkdown: the returned string
    genCalls,           \* generateMarkdown: number of calls that have returned
    firstMarkdown,      \* generateMarkdown: the string the first call returned
    filesGiven,         \* generateMarkdown: the list as it was before the calls
    jsDocs,             \* comment resolver: the declaration's JSDoc blocks
    description,        \* comment resolver: result of getJsDocDescriptionFromDocs
    paramDescriptions,  \* comment resolver: result of extractParamDescriptions
    docCalls,           \* comment resolver: the calls that have returned
    syntaxTree,         \* parseFile: top-level statements of the source file
    parsed,             \* parseFile: the returned ParsedFile
    item,               \* section generators: the item passed in
    section,            \* section generators: the returned line list
    matched,            \* run: the files glob returned, each with its content
    outputOption,       \* run: options.output, None when absent
    cursor,             \* run: number of files the parse loop has taken
    parsedFiles,        \* run: the ParsedFile list built by the loop
    parseCalls,         \* run: the paths parseFile was called with, in order
    stderr,             \* run: what console.error has printed, in order
    handed,             \* run: the lists generateMarkdown was called with
    written,            \* run: the outputs written, each [to, text]
    exitCode            \* run: None while running, "0" or "1" at the end

anchorVars == <<anchorIn, anchorOut, anchorCalls>>

genVars == <<files, title, allInterfaces, allTypeAliases, allFunctions,
             duplicateNames, lines, markdown, genCalls, firstMarkdown,
             filesGiven>>

docVars == <<jsDocs, description, paramDescriptions, docCalls>>

parseVars == <<syntaxTree, parsed>>

secVars == <<item, section>>

runVars == <<matched, outputOption, cursor, parsedFiles, parseCalls, stderr,
             handed, written, exitCode>>

vars == <<pc, anchorVars, genVars, docVars, parseVars, secVars, runVars>>

None == <<"undefined">>

NoList == <<None>>

\* ---------------------------------------------------------------------------
\* Bounds
\* ---------------------------------------------------------------------------
MaxLen == 3             \* longest argument string of toAnchor
MaxCalls == 2           \* toAnchor is applied to its own result up to here
MaxFiles == 2           \* longest ParsedFile list given to generateMarkdown
MaxDocs == 2            \* most JSDoc blocks attached to one declaration
MaxDecls == 2           \* most top-level statements of a source file

MaxRows == 2            \* most properties of an interface, parameters of a function

MaxMatched == 3         \* most files the glob pattern of a run matches

GenRepeat == 2          \* generateMarkdown is called this often on one input

\* ---------------------------------------------------------------------------
\* Characters and strings
\* ---------------------------------------------------------------------------
UpperChars ==
    <<"A","B","C","D","E","F","G","H","I","J","K","L","M",
      "N","O","P","Q","R","S","T","U","V","W","X","Y","Z">>

LowerChars ==
    <<"a","b","c","d","e","f","g","h","i","j","k","l","m",
      "n","o","p","q","r","s","t","u","v","w","x","y","z">>

DigitChars == <<"0","1","2","3","4","5","6","7","8","9">>

Range(s) == { s[i] : i \in 1..Len(s) }

\* String.prototype.toLowerCase on one character
toLowerChar(c) ==
    IF \E i \in 1..Len(UpperChars) : UpperChars[i] = c
    THEN LowerChars[CHOOSE i \in 1..Len(UpperChars) : UpperChars[i] = c]
    ELSE c

toLowerCase(s) == [i \in 1..Len(s) |-> toLowerChar(s[i])]

\* the character class [a-z0-9] of toAnchor's regular expression
InAnchorClass(c) == c \in Range(LowerChars) \cup Range(DigitChars)

\* s.replace(/[^a-z0-9]+/g, "-"): scan from the left; at a character outside
\* the class the match extends greedily over the whole run and is replaced
\* by one hyphen, the scan resuming after the run
RECURSIVE skipRun(_)
skipRun(s) ==
    IF s # <<>> /\ ~InAnchorClass(Head(s)) THEN skipRun(Tail(s)) ELSE s

\* the replacement without the +: every character outside the class becomes
\* a hyphen of its own
replaceEach(s) ==
    [i \in 1..Len(s) |-> IF InAnchorClass(s[i]) THEN s[i] ELSE "-"]

RECURSIVE replaceRuns(_)
replaceRuns(s) ==
    IF s = <<>> THEN <<>>
    ELSE IF InAnchorClass(Head(s)) THEN <<Head(s)>> \o replaceRuns(Tail(s))
    ELSE <<"-">> \o replaceRuns(skipRun(Tail(s)))

toAnchor(name) == replaceRuns(toLowerCase(name))

\* ---------------------------------------------------------------------------
\* generator.ts: fixed texts
\* ---------------------------------------------------------------------------
\* characters that a TLA+ string cannot hold, each one character of the text
CheckMark == "U+2713"

Backtick == "U+0060"

DefaultTitle == <<"A","P","I"," ","R","e","f","e","r","e","n","c","e">>

TocHeading ==
    <<"#","#"," ","T","a","b","l","e"," ","o","f"," ","C","o","n","t","e","n","t","s">>

TocInterfaces == <<"#","#","#"," ","I","n","t","e","r","f","a","c","e","s">>

TocTypes == <<"#","#","#"," ","T","y","p","e","s">>

TocFunctions == <<"#","#","#"," ","F","u","n","c","t","i","o","n","s">>

Rule == <<"-","-","-">>

NoProperties == <<"*","N","o"," ","p","r","o","p","e","r","t","i","e","s","*">>

PropertiesHeader ==
    <<"|"," ","P","r","o","p","e","r","t","y"," ","|"," ","T","y","p","e"," ",
      "|"," ","R","e","q","u","i","r","e","d"," ","|"," ",
      "D","e","s","c","r","i","p","t","i","o","n"," ","|">>

PropertiesDivider ==
    <<"|","-","-","-","-","-","-","-","-","-","-","|","-","-","-","-","-","-",
      "|","-","-","-","-","-","-","-","-","-","-",
      "|","-","-","-","-","-","-","-","-","-","-","-","-","-","|">>

ParametersHeader ==
    <<"|"," ","N","a","m","e"," ","|"," ","T","y","p","e"," ",
      "|"," ","R","e","q","u","i","r","e","d"," ","|"," ",
      "D","e","s","c","r","i","p","t","i","o","n"," ","|">>

ParametersDivider ==
    <<"|","-","-","-","-","-","-","|","-","-","-","-","-","-",
      "|","-","-","-","-","-","-","-","-","-","-",
      "|","-","-","-","-","-","-","-","-","-","-","-","-","-","|">>

FenceOpen == <<Backtick,Backtick,Backtick,"t","y","p","e","s","c","r","i","p","t">>

FenceClose == <<Backtick,Backtick,Backtick>>

ParametersLabel == <<"*","*","P","a","r","a","m","e","t","e","r","s",":","*","*">>

ReturnsLabel == <<"*","*","R","e","t","u","r","n","s",":","*","*"," ",Backtick>>

ExtendsLabel == <<"*","E","x","t","e","n","d","s",":"," ">>

\* ---------------------------------------------------------------------------
\* generator.ts: helpers
\* ---------------------------------------------------------------------------
\* a JavaScript string used as a condition, and `s || ""`
Truthy(s) == s # None /\ s # <<>>

OrEmpty(s) == IF Truthy(s) THEN s ELSE <<>>

\* Array.prototype.join: the elements in order with sep between neighbours
\* (computed by halves, which keeps the evaluation shallow)
RECURSIVE join(_, _)
join(strs, sep) ==
    IF strs = <<>> THEN <<>>
    ELSE IF Len(strs) = 1 THEN strs[1]
    ELSE LET half == Len(strs) \div 2
         IN  join(SubSeq(strs, 1, half), sep) \o sep
             \o join(SubSeq(strs, half + 1, Len(strs)), sep)

\* lines.push(...f(x)) for each x of a list, in order
RECURSIVE FlatMap(_, _)
FlatMap(F(_), xs) ==
    IF xs = <<>> THEN <<>> ELSE F(Head(xs)) \o FlatMap(F, Tail(xs))

Map(F(_), xs) == [i \in 1..Len(xs) |-> F(xs[i])]

\* path.basename (posix): trailing separators are dropped, then the part
\* after the last separator is returned
RECURSIVE stripTrailingSlashes(_)
stripTrailingSlashes(p) ==
    IF p # <<>> /\ p[Len(p)] = "/"
    THEN stripTrailingSlashes(SubSeq(p, 1, Len(p) - 1))
    ELSE p

basename(p) ==
    LET q == stripTrailingSlashes(p)
        slashes == { i \in 1..Len(q) : q[i] = "/" }
        start == IF slashes = {} THEN 1
                 ELSE (CHOOSE i \in slashes : \A j \in slashes : j <= i) + 1
    IN  SubSeq(q, start, Len(q))

\* the replacement without the g flag: only the first pipe is escaped
escapeFirstPipe(text) ==
    LET pipes == { i \in 1..Len(text) : text[i] = "|" }
        first == CHOOSE i \in pipes : \A j \in pipes : i <= j
    IN  IF pipes = {} THEN text
        ELSE SubSeq(text, 1, first - 1) \o <<"\\", "|">>
             \o SubSeq(text, first + 1, Len(text))

\* text.replace(/\|/g, "\\|")
RECURSIVE escapeMarkdown(_)
escapeMarkdown(text) ==
    IF text = <<>> THEN <<>>
    ELSE (IF Head(text) = "|" THEN <<"\\", "|">> ELSE <<Head(text)>>)
         \o escapeMarkdown(Tail(text))

\* findDuplicateNames: one pass over the names with the sets seen, duplicates
RECURSIVE findDuplicatesFrom(_, _, _, _)
findDuplicatesFrom(names, i, seen, duplicates) ==
    IF i > Len(names) THEN duplicates
    ELSE findDuplicatesFrom(names, i + 1, seen \cup {names[i]},
             IF names[i] \in seen THEN duplicates \cup {names[i]}
                                  ELSE duplicates)

\* a name counts as duplicate only when it directly follows itself
findDuplicateNamesAdjacent(names) ==
    { names[i] : i \in { j \in 2..Len(names) : names[j] = names[j - 1] } }

findDuplicateNames(names) == findDuplicatesFrom(names, 1, {}, {})

getDisplayName(name, sourceFile, duplicates) ==
    IF name \in duplicates
    THEN name \o <<" ", "(">> \o sourceFile \o <<")">>
    ELSE name

getAnchor(name, sourceFile, duplicates) ==
    IF name \in duplicates
    THEN toAnchor(name \o <<"-">> \o sourceFile)
    ELSE toAnchor(name)

\* ---------------------------------------------------------------------------
\* generator.ts: sections
\* ---------------------------------------------------------------------------
requiredCell(required) == IF required THEN <<CheckMark>> ELSE <<>>

\* `| ${name} | \`${type}\` | ${required} | ${description} |`
tableRow(rec) ==
    <<"|", " ">> \o rec.name \o <<" ", "|", " ", Backtick>>
    \o escapeMarkdown(rec.type) \o <<Backtick, " ", "|", " ">>
    \o requiredCell(rec.required) \o <<" ", "|", " ">>
    \o OrEmpty(rec.description) \o <<" ", "|">>

generatePropertiesTable(properties) ==
    <<PropertiesHeader, PropertiesDivider>> \o Map(tableRow, properties)

generateParametersTable(parameters) ==
    <<ParametersHeader, ParametersDivider>> \o Map(tableRow, parameters)

\* generateInterface without the test of properties.length
generateInterfaceTableAlways(iface, sourceFile, duplicates) ==
    <<<<"#", "#", " ">> \o getDisplayName(iface.name, sourceFile, duplicates), <<>>>>
    \o (IF iface.extends # NoList /\ Len(iface.extends) > 0
        THEN <<ExtendsLabel \o join(iface.extends, <<",", " ">>) \o <<"*">>, <<>>>>
        ELSE <<>>)
    \o (IF Truthy(iface.description) THEN <<iface.description, <<>>>> ELSE <<>>)
    \o generatePropertiesTable(iface.properties)
    \o <<<<>>, Rule>>

generateInterface(iface, sourceFile, duplicates) ==
    <<<<"#", "#", " ">> \o getDisplayName(iface.name, sourceFile, duplicates), <<>>>>
    \o (IF iface.extends # NoList /\ Len(iface.extends) > 0
        THEN <<ExtendsLabel \o join(iface.extends, <<",", " ">>) \o <<"*">>, <<>>>>
        ELSE <<>>)
    \o (IF Truthy(iface.description) THEN <<iface.description, <<>>>> ELSE <<>>)
    \o (IF Len(iface.properties) > 0
        THEN generatePropertiesTable(iface.properties)
        ELSE <<NoProperties>>)
    \o <<<<>>, Rule>>

generateTypeAlias(alias, sourceFile, duplicates) ==
    <<<<"#", "#", " ">> \o getDisplayName(alias.name, sourceFile, duplicates), <<>>>>
    \o (IF Truthy(alias.description) THEN <<alias.description, <<>>>> ELSE <<>>)
    \o <<FenceOpen,
         <<"t","y","p","e"," ">> \o alias.name \o <<" ", "=", " ">> \o alias.type,
         FenceClose>>
    \o <<<<>>, Rule>>

signatureParam(p) ==
    p.name \o (IF p.required THEN <<>> ELSE <<"?">>) \o <<":", " ">> \o p.type

signature(fn) ==
    (IF fn.isAsync THEN <<"a","s","y","n","c"," ">> ELSE <<>>)
    \o <<"f","u","n","c","t","i","o","n"," ">> \o fn.name \o <<"(">>
    \o join(Map(signatureParam, fn.parameters), <<",", " ">>)
    \o <<")", ":", " ">> \o fn.returnType

generateFunction(fn, sourceFile, duplicates) ==
    <<<<"#", "#", " ">> \o getDisplayName(fn.name, sourceFile, duplicates)
          \o <<"(", ")">>,
      <<>>>>
    \o (IF Truthy(fn.description) THEN <<fn.description, <<>>>> ELSE <<>>)
    \o <<FenceOpen, signature(fn), FenceClose, <<>>>>
    \o (IF Len(fn.parameters) > 0
        THEN <<ParametersLabel, <<>>>> \o generateParametersTable(fn.parameters)
             \o <<<<>>>>
        ELSE <<>>)
    \o <<ReturnsLabel \o escapeMarkdown(fn.returnType) \o <<Backtick>>>>
    \o <<<<>>, Rule>>

\* ---------------------------------------------------------------------------
\* generator.ts: generateMarkdown
\* ---------------------------------------------------------------------------
\* the three pooling loops: every item with the base name of its file
withSource(file, items) ==
    [i \in 1..Len(items) |->
        [item |-> items[i], sourceFile |-> basename(file.filePath)]]

\* the pooling loop with unshift in place of push: later files come first
poolInterfacesReversed(fs) ==
    FlatMap(LAMBDA file : withSource(file, file.interfaces),
            [i \in 1..Len(fs) |-> fs[Len(fs) + 1 - i]])

poolInterfaces(fs) ==
    FlatMap(LAMBDA file : withSource(file, file.interfaces), fs)

poolTypeAliases(fs) ==
    FlatMap(LAMBDA file : withSource(file, file.typeAliases), fs)

poolFunctions(fs) ==
    FlatMap(LAMBDA file : withSource(file, file.functions), fs)

itemNames(pooled) == [i \in 1..Len(pooled) |-> pooled[i].item.name]

\* `- [${displayName}](#${anchor})`, with "()" after a function's display name
tocEntry(p, duplicates, suffix) ==
    <<"-", " ", "[">>
    \o getDisplayName(p.item.name, p.sourceFile, duplicates) \o suffix
    \o <<"]", "(", "#">>
    \o getAnchor(p.item.name, p.sourceFile, duplicates) \o <<")">>

tocSubsection(heading, pooled, duplicates, suffix) ==
    IF Len(pooled) > 0
    THEN <<heading, <<>>>>
         \o [i \in 1..Len(pooled) |-> tocEntry(pooled[i], duplicates, suffix)]
         \o <<<<>>>>
    ELSE <<>>

\* the table of contents emitted only when there is an interface
tableOfContentsIfInterfaces(ifaces, aliases, fns, duplicates) ==
    IF Len(ifaces) > 0
    THEN <<TocHeading, <<>>>>
         \o tocSubsection(TocInterfaces, ifaces, duplicates, <<>>)
         \o tocSubsection(TocTypes, aliases, duplicates, <<>>)
         \o tocSubsection(TocFunctions, fns, duplicates, <<"(", ")">>)
         \o <<Rule, <<>>>>
    ELSE <<>>

tableOfContents(ifaces, aliases, fns, duplicates) ==
    IF Len(ifaces) + Len(aliases) + Len(fns) > 0
    THEN <<TocHeading, <<>>>>
         \o tocSubsection(TocInterfaces, ifaces, duplicates, <<>>)
         \o tocSubsection(TocTypes, aliases, duplicates, <<>>)
         \o tocSubsection(TocFunctions, fns, duplicates, <<"(", ")">>)
         \o <<Rule, <<>>>>
    ELSE <<>>

markdownLines(t, ifaces, aliases, fns, duplicates) ==
    <<<<"#", " ">> \o (IF t = None THEN DefaultTitle ELSE t), <<>>>>
    \o tableOfContents(ifaces, aliases, fns, duplicates)
    \o FlatMap(LAMBDA p : generateInterface(p.item, p.sourceFile, duplicates)
                          \o <<<<>>>>, ifaces)
    \o FlatMap(LAMBDA p : generateTypeAlias(p.item, p.sourceFile, duplicates)
                          \o <<<<>>>>, aliases)
    \o FlatMap(LAMBDA p : generateFunction(p.item, p.sourceFile, duplicates)
                          \o <<<<>>>>, fns)

\* ---------------------------------------------------------------------------
\* parser.ts: JSDoc utilities
\* A JSDoc block is [description, tags]; a tag is [tagName, isParameterTag,
\* name, commentText], as ts-morph hands them out.
\* ---------------------------------------------------------------------------
WhiteSpace == {" ", "\t", "\n"}

\* String.prototype.trim
RECURSIVE trimStart(_)
trimStart(s) ==
    IF s # <<>> /\ Head(s) \in WhiteSpace THEN trimStart(Tail(s)) ELSE s

RECURSIVE trimEnd(_)
trimEnd(s) ==
    IF s # <<>> /\ s[Len(s)] \in WhiteSpace
    THEN trimEnd(SubSeq(s, 1, Len(s) - 1))
    ELSE s

trim(s) == trimEnd(trimStart(s))

\* comment.replace(/^-\s*/, "")
stripLeadingDash(comment) ==
    IF comment # <<>> /\ Head(comment) = "-"
    THEN trimStart(Tail(comment))
    ELSE comment

\* paramName.includes(".")
includesDot(paramName) == "." \in Range(paramName)

\* Map.prototype.set and Map.prototype.get
mapSet(m, k, v) == [n \in DOMAIN m \cup {k} |-> IF n = k THEN v ELSE m[n]]

mapGet(m, k) == IF k \in DOMAIN m THEN m[k] ELSE None

EmptyMap == <<>>

\* the loop of extractParamDescriptions over the tags of one block
RECURSIVE extractFromTags(_, _, _)
extractFromTags(tags, i, descriptions) ==
    IF i > Len(tags) THEN descriptions
    ELSE LET tag == tags[i]
             paramName == tag.name
             comment == IF tag.commentText = None THEN None
                        ELSE trim(tag.commentText)
         IN  IF /\ tag.tagName = "param"
                /\ tag.isParameterTag
                /\ Truthy(paramName)
                /\ ~includesDot(paramName)
                /\ Truthy(comment)
             THEN extractFromTags(tags, i + 1,
                      mapSet(descriptions, paramName, stripLeadingDash(comment)))
             ELSE extractFromTags(tags, i + 1, descriptions)

extractParamDescriptions(docs) ==
    IF Len(docs) = 0 THEN EmptyMap
    ELSE extractFromTags(docs[Len(docs)].tags, 1, EmptyMap)

\* getJsDocDescriptionFromDocs falling back to the nearest earlier block
\* that has a summary
RECURSIVE getJsDocDescriptionFallback(_)
getJsDocDescriptionFallback(docs) ==
    IF Len(docs) = 0 THEN None
    ELSE LET d == docs[Len(docs)].description
         IN  IF ~Truthy(d) \/ trim(d) = <<>>
             THEN getJsDocDescriptionFallback(SubSeq(docs, 1, Len(docs) - 1))
             ELSE trim(d)

getJsDocDescriptionFromDocs(docs) ==
    IF Len(docs) = 0 THEN None
    ELSE LET d == docs[Len(docs)].description
         IN  IF ~Truthy(d) \/ trim(d) = <<>> THEN None ELSE trim(d)

\* node.getJsDocs?.() then getJsDocDescriptionFromDocs
getJsDocDescription(node) == getJsDocDescriptionFromDocs(node.jsDocs)

\* ---------------------------------------------------------------------------
\* parser.ts: declarations
\* The syntax tree of a source file is the sequence of its top-level
\* statements in source order, as the ts-morph getters enumerate them:
\*   interface  [exported, name, jsDocs, members, extendsTexts]
\*   typeAlias  [exported, name, jsDocs, typeText]
\*   function   [exported, name, jsDocs, params, returnType, isAsync]
\*   variable   [exported, jsDocs, declarations], a declaration being
\*              [name, initKind, params, returnType, isAsync]
\* Type texts are those that getType().getText() returns.
\* ---------------------------------------------------------------------------
Anonymous == <<"a","n","o","n","y","m","o","u","s">>

OfKind(statements, kind) == SelectSeq(statements, LAMBDA st : st.kind = kind)

Exported(statements) == SelectSeq(statements, LAMBDA st : st.exported)

getInterfaces(tree) == OfKind(tree, "interface")

getTypeAliases(tree) == OfKind(tree, "typeAlias")

getFunctions(tree) == OfKind(tree, "function")

\* every declaration of every variable statement, with its statement
getVariableDeclarations(tree) ==
    FlatMap(LAMBDA st : [j \in 1..Len(st.declarations) |->
                            [decl |-> st.declarations[j], statement |-> st]],
            OfKind(tree, "variable"))

parseParameters(params, descriptions) ==
    [i \in 1..Len(params) |->
        [name |-> params[i].name,
         type |-> params[i].typeText,
         required |-> ~params[i].isOptional /\ ~params[i].hasInitializer,
         description |-> mapGet(descriptions, params[i].name)]]

propertyOf(prop) ==
    [name |-> prop.name,
     type |-> prop.typeText,
     required |-> ~prop.questionToken,
     description |-> getJsDocDescription(prop)]

methodParam(p) == p.name \o <<":", " ">> \o p.typeText

propertyOfMethod(method) ==
    [name |-> method.name,
     type |-> <<"(">> \o join(Map(methodParam, method.params), <<",", " ">>)
              \o <<")", " ", "=", ">", " ">> \o method.returnType,
     required |-> ~method.questionToken,
     description |-> getJsDocDescription(method)]

\* iface.getProperties() first, iface.getMethods() after them
parseProperties(iface) ==
    Map(propertyOf, OfKind(iface.members, "property"))
    \o Map(propertyOfMethod, OfKind(iface.members, "method"))

getExtendsClause(iface) ==
    IF Len(iface.extendsTexts) = 0 THEN NoList ELSE iface.extendsTexts

interfaceOf(iface) ==
    [kind |-> "interface",
     name |-> iface.name,
     description |-> getJsDocDescription(iface),
     properties |-> parseProperties(iface),
     extends |-> getExtendsClause(iface)]

\* parseInterfaces without the isExported filter
parseInterfacesUnfiltered(tree) == Map(interfaceOf, getInterfaces(tree))

parseInterfaces(tree) == Map(interfaceOf, Exported(getInterfaces(tree)))

typeAliasOf(alias) ==
    [kind |-> "type",
     name |-> alias.name,
     type |-> alias.typeText,
     description |-> getJsDocDescription(alias)]

parseTypeAliases(tree) == Map(typeAliasOf, Exported(getTypeAliases(tree)))

parseFunctionDeclaration(fn) ==
    [kind |-> "function",
     name |-> IF Truthy(fn.name) THEN fn.name ELSE Anonymous,
     description |-> getJsDocDescription(fn),
     parameters |-> parseParameters(fn.params, extractParamDescriptions(fn.jsDocs)),
     returnType |-> fn.returnType,
     isAsync |-> fn.isAsync]

\* the JSDoc blocks are those of the variable statement
parseArrowFunction(vd) ==
    [kind |-> "function",
     name |-> vd.decl.name,
     description |-> getJsDocDescriptionFromDocs(vd.statement.jsDocs),
     parameters |-> parseParameters(vd.decl.params,
                        extractParamDescriptions(vd.statement.jsDocs)),
     returnType |-> vd.decl.returnType,
     isAsync |-> vd.decl.isAsync]

\* parseFunctions without its second loop
parseFunctionsDeclarationsOnly(tree) ==
    Map(parseFunctionDeclaration, Exported(getFunctions(tree)))

\* function declarations first, arrow-function variables after them
parseFunctions(tree) ==
    Map(parseFunctionDeclaration, Exported(getFunctions(tree)))
    \o Map(parseArrowFunction,
           SelectSeq(getVariableDeclarations(tree),
                     LAMBDA vd : vd.statement.exported
                                 /\ vd.decl.initKind = "arrow"))

parseFile(filePath, tree) ==
    [filePath |-> filePath,
     interfaces |-> parseInterfaces(tree),
     typeAliases |-> parseTypeAliases(tree),
     functions |-> parseFunctions(tree)]

\* ---------------------------------------------------------------------------
\* Initial values of the parts a specification does not use
\* ---------------------------------------------------------------------------
AnchorIdle == anchorIn = None /\ anchorOut = None /\ anchorCalls = 0

GenIdle ==
    /\ files = <<>>
    /\ title = None
    /\ allInterfaces = <<>>
    /\ allTypeAliases = <<>>
    /\ allFunctions = <<>>
    /\ duplicateNames = {}
    /\ lines = <<>>
    /\ markdown = None
    /\ genCalls = 0
    /\ firstMarkdown = None
    /\ filesGiven = <<>>

DocIdle ==
    /\ jsDocs = <<>>
    /\ description = None
    /\ paramDescriptions = EmptyMap
    /\ docCalls = {}

ParseIdle == syntaxTree = <<>> /\ parsed = None

SecIdle == item = None /\ section = <<>>

RunIdle ==
    /\ matched = <<>>
    /\ outputOption = None
    /\ cursor = 0
    /\ parsedFiles = <<>>
    /\ parseCalls = <<>>
    /\ stderr = <<>>
    /\ handed = <<>>
    /\ written = <<>>
    /\ exitCode = None

\* ---------------------------------------------------------------------------
\* generateMarkdown on ParsedFile lists
\* ---------------------------------------------------------------------------
GenPaths ==
    { <<"a", ".", "t", "s">>,
      <<"b", ".", "t", "s">>,
      <<"d", "/", "a", ".", "t", "s">> }

GenTitles == { None, <<"S", "D", "K">> }

PropUnion ==
    [name |-> <<"q">>, type |-> <<"s", "|", "n">>, required |-> FALSE,
     description |-> <<"d">>]

ParamX ==
    [name |-> <<"x">>, type |-> <<"n">>, required |-> TRUE,
     description |-> None]

IfaceUpper ==
    [kind |-> "interface", name |-> <<"C", "f">>, description |-> None,
     properties |-> <<>>, extends |-> NoList]

IfaceLower ==
    [kind |-> "interface", name |-> <<"c", "f">>, description |-> <<"D">>,
     properties |-> <<PropUnion>>, extends |-> <<<<"B">>>>]

AliasT ==
    [kind |-> "type", name |-> <<"T">>, type |-> <<"s", "|", "n">>,
     description |-> None]

FnUpper ==
    [kind |-> "function", name |-> <<"C", "f">>, description |-> <<"D">>,
     parameters |-> <<ParamX>>, returnType |-> <<"v">>, isAsync |-> TRUE]

FnG ==
    [kind |-> "function", name |-> <<"g">>, description |-> None,
     parameters |-> <<>>, returnType |-> <<"v">>, isAsync |-> FALSE]

GenFiles ==
    [filePath : GenPaths,
     interfaces : { <<>>, <<IfaceUpper, IfaceLower>> },
     typeAliases : { <<>>, <<AliasT>> },
     functions : { <<>>, <<FnUpper, FnG>> }]

\* the files of one run are distinct files
GenFileLists ==
    { fs \in UNION { [1..n -> GenFiles] : n \in 0..MaxFiles } :
        \A i, j \in 1..Len(fs) : i # j => fs[i].filePath # fs[j].filePath }

InitGen ==
    /\ pc = "start"
    /\ files \in GenFileLists
    /\ title \in GenTitles
    /\ allInterfaces = <<>>
    /\ allTypeAliases = <<>>
    /\ allFunctions = <<>>
    /\ duplicateNames = {}
    /\ lines = <<>>
    /\ markdown = None
    /\ genCalls = 0
    /\ firstMarkdown = None
    /\ filesGiven = files
    /\ AnchorIdle
    /\ DocIdle
    /\ ParseIdle
    /\ SecIdle
    /\ RunIdle

\* generateMarkdown taking the files off the list it was given (files.shift())
GenerateMarkdownConsuming ==
    /\ genCalls < GenRepeat
    /\ LET ifaces == poolInterfaces(files)
           aliases == poolTypeAliases(files)
           fns == poolFunctions(files)
           dups == findDuplicateNames(
                       itemNames(ifaces) \o itemNames(aliases) \o itemNames(fns))
           out == markdownLines(title, ifaces, aliases, fns, dups)
           joined == join(out, <<"\n">>)
       IN  /\ allInterfaces' = ifaces
           /\ allTypeAliases' = aliases
           /\ allFunctions' = fns
           /\ duplicateNames' = dups
           /\ lines' = out
           /\ markdown' = joined
           /\ firstMarkdown' = IF genCalls = 0 THEN joined ELSE firstMarkdown
    /\ files' = <<>>
    /\ genCalls' = genCalls + 1
    /\ pc' = "done"
    /\ UNCHANGED <<title, filesGiven, anchorVars, docVars, parseVars,
                   secVars, runVars>>

\* a call with the same list and options as the call before it, GenRepeat
\* calls in all
GenerateMarkdown ==
    /\ genCalls < GenRepeat
    /\ LET ifaces == poolInterfaces(files)
           aliases == poolTypeAliases(files)
           fns == poolFunctions(files)
           dups == findDuplicateNames(
                       itemNames(ifaces) \o itemNames(aliases) \o itemNames(fns))
           out == markdownLines(title, ifaces, aliases, fns, dups)
           joined == join(out, <<"\n">>)
       IN  /\ allInterfaces' = ifaces
           /\ allTypeAliases' = aliases
           /\ allFunctions' = fns
           /\ duplicateNames' = dups
           /\ lines' = out
           /\ markdown' = joined
           /\ firstMarkdown' = IF genCalls = 0 THEN joined ELSE firstMarkdown
    /\ genCalls' = genCalls + 1
    /\ pc' = "done"
    /\ UNCHANGED <<files, title, filesGiven, anchorVars, docVars, parseVars,
                   secVars, runVars>>

NextGen == GenerateMarkdown

SpecGen == InitGen /\ [][NextGen]_vars

\* ---------------------------------------------------------------------------
\* The comment resolver on the JSDoc blocks of one declaration
\* ---------------------------------------------------------------------------
ParamTag(name, comment) ==
    [tagName |-> "param", isParameterTag |-> TRUE, name |-> name,
     commentText |-> comment]

TagXNone == ParamTag(<<"x">>, None)

TagXBlank == ParamTag(<<"x">>, <<" ", " ">>)

TagXDash == ParamTag(<<"x">>, <<"-">>)

TagXDashD == ParamTag(<<"x">>, <<"-", " ", "d">>)

TagXE == ParamTag(<<"x">>, <<" ", "e", " ">>)

TagDotted == ParamTag(<<"i", ".", "a">>, <<"d">>)

\* @arg is a parameter tag whose tag name is not "param"
TagArg ==
    [tagName |-> "arg", isParameterTag |-> TRUE, name |-> <<"y">>,
     commentText |-> <<"d">>]

TagReturns ==
    [tagName |-> "returns", isParameterTag |-> FALSE, name |-> None,
     commentText |-> <<"d">>]

DocTags ==
    {TagXNone, TagXBlank, TagXDash, TagXDashD, TagXE, TagDotted, TagArg,
     TagReturns}

DocTagLists == {<<>>} \cup { <<t>> : t \in DocTags } \cup {<<TagXDashD, TagXE>>}

DocSummaries == {None, <<" ">>, <<" ", "s", "\n">>}

DocBlocks == [description : DocSummaries, tags : DocTagLists]

InitDocs ==
    /\ pc = "start"
    /\ jsDocs \in UNION { [1..n -> DocBlocks] : n \in 0..MaxDocs }
    /\ description = None
    /\ paramDescriptions = EmptyMap
    /\ docCalls = {}
    /\ AnchorIdle
    /\ GenIdle
    /\ ParseIdle
    /\ SecIdle
    /\ RunIdle

GetJsDocDescriptionFromDocs ==
    /\ "description" \notin docCalls
    /\ description' = getJsDocDescriptionFromDocs(jsDocs)
    /\ docCalls' = docCalls \cup {"description"}
    /\ pc' = "done"
    /\ UNCHANGED <<jsDocs, paramDescriptions, anchorVars, genVars, parseVars,
                   secVars, runVars>>

ExtractParamDescriptions ==
    /\ "params" \notin docCalls
    /\ paramDescriptions' = extractParamDescriptions(jsDocs)
    /\ docCalls' = docCalls \cup {"params"}
    /\ pc' = "done"
    /\ UNCHANGED <<jsDocs, description, anchorVars, genVars, parseVars,
                   secVars, runVars>>

NextDocs == GetJsDocDescriptionFromDocs \/ ExtractParamDescriptions

SpecDocs == InitDocs /\ [][NextDocs]_vars

\* ---------------------------------------------------------------------------
\* parseFile on the syntax tree of one source file
\* ---------------------------------------------------------------------------
ParsePath == <<"a", ".", "t", "s">>

DocA == [description |-> <<" ", "s", "\n">>, tags |-> <<TagXDashD>>]

AstDocs == { <<>>, <<DocA>> }

AstParamX ==
    [name |-> <<"x">>, typeText |-> <<"n">>, isOptional |-> FALSE,
     hasInitializer |-> FALSE]

MemberProperty ==
    [kind |-> "property", name |-> <<"p">>, typeText |-> <<"s">>,
     questionToken |-> FALSE, jsDocs |-> <<>>, params |-> <<>>,
     returnType |-> None]

MemberMethod ==
    [kind |-> "method", name |-> <<"m">>, typeText |-> None,
     questionToken |-> TRUE, jsDocs |-> <<DocA>>, params |-> <<AstParamX>>,
     returnType |-> <<"v">>]

AstMemberLists ==
    { <<>>, <<MemberMethod, MemberProperty>>, <<MemberProperty, MemberMethod>> }

Initializer(kind) ==
    [name |-> None, initKind |-> kind,
     params |-> IF kind = "other" THEN <<>> ELSE <<AstParamX>>,
     returnType |-> IF kind = "other" THEN None ELSE <<"v">>,
     isAsync |-> FALSE]

AstDeclarationLists ==
    { <<Initializer("arrow")>>, <<Initializer("functionExpression")>>,
      <<Initializer("other")>>,
      <<Initializer("arrow"), Initializer("functionExpression")>> }

\* the statements before they are given their names; only an exported
\* (default) function declaration can be unnamed
AstShapes ==
    [kind : {"interface"}, exported : BOOLEAN, named : {TRUE}, jsDocs : AstDocs,
     members : AstMemberLists, extendsTexts : { <<>>, <<<<"B">>>> }]
    \cup [kind : {"typeAlias"}, exported : BOOLEAN, named : {TRUE},
          jsDocs : AstDocs, typeText : { <<"s", "|", "n">> }]
    \cup { f \in [kind : {"function"}, exported : BOOLEAN, named : BOOLEAN,
                  jsDocs : AstDocs, params : { <<AstParamX>> },
                  returnType : { <<"v">> }, isAsync : {TRUE}] :
             f.named \/ f.exported }
    \cup [kind : {"variable"}, exported : BOOLEAN, named : {FALSE},
          jsDocs : AstDocs, declarations : AstDeclarationLists]

\* the statement at position i is named n<i>, the j-th binding of a variable
\* statement at position i is named v<i><j>
StatementName(i) == <<"n", DigitChars[i + 1]>>

BindingName(i, j) == <<"v", DigitChars[i + 1], DigitChars[j + 1]>>

NamedStatement(shape, i) ==
    IF shape.kind = "variable"
    THEN [kind |-> "variable", exported |-> shape.exported,
          jsDocs |-> shape.jsDocs,
          declarations |->
              [j \in 1..Len(shape.declarations) |->
                  [shape.declarations[j] EXCEPT !.name = BindingName(i, j)]]]
    ELSE [f \in (DOMAIN shape \ {"named"}) \cup {"name"} |->
              IF f = "name"
              THEN (IF shape.named THEN StatementName(i) ELSE None)
              ELSE shape[f]]

InitParse ==
    /\ pc = "start"
    /\ \E n \in 0..MaxDecls :
         \E shapes \in [1..n -> AstShapes] :
            syntaxTree = [i \in 1..n |-> NamedStatement(shapes[i], i)]
    /\ parsed = None
    /\ AnchorIdle
    /\ GenIdle
    /\ DocIdle
    /\ SecIdle
    /\ RunIdle

ParseFile ==
    /\ pc = "start"
    /\ parsed' = parseFile(ParsePath, syntaxTree)
    /\ pc' = "done"
    /\ UNCHANGED <<syntaxTree, anchorVars, genVars, docVars, secVars, runVars>>

NextParse == ParseFile

SpecParse == InitParse /\ [][NextParse]_vars

\* ---------------------------------------------------------------------------
\* generateInterface, generateTypeAlias and generateFunction on one item
\* ---------------------------------------------------------------------------
SecTypes == { <<"s">>, <<"s", "|", "n", "|", "u">> }

SecDescriptions == { None, <<"d">>, <<"a", "|", "b">> }

\* a property or parameter before it is given its name
SecRowShapes ==
    [type : SecTypes, required : BOOLEAN, description : SecDescriptions]

\* the names of the properties of one interface, and of the parameters of one
\* function, are distinct: the record at position i is named p<i>
SecRow(shape, i) ==
    [name |-> <<"p", DigitChars[i + 1]>>, type |-> shape.type,
     required |-> shape.required, description |-> shape.description]

SecRowLists ==
    UNION { { [i \in 1..n |-> SecRow(shapes[i], i)] :
                shapes \in [1..n -> SecRowShapes] } : n \in 0..MaxRows }

SecInterfaces ==
    [kind : {"interface"}, name : { <<"A">> }, description : { None, <<"D">> },
     properties : SecRowLists, extends : { NoList, <<<<"B">>>> }]

SecTypeAliases ==
    [kind : {"type"}, name : { <<"T">> }, type : SecTypes,
     description : { None, <<"D">> }]

SecFunctions ==
    [kind : {"function"}, name : { <<"f">> }, description : { None, <<"D">> },
     parameters : SecRowLists, returnType : SecTypes, isAsync : BOOLEAN]

SecSource == <<"a", ".", "t", "s">>

InitSections ==
    /\ pc = "start"
    /\ item \in SecInterfaces \cup SecTypeAliases \cup SecFunctions
    /\ section = <<>>
    /\ AnchorIdle
    /\ GenIdle
    /\ DocIdle
    /\ ParseIdle
    /\ RunIdle

GenerateInterface ==
    /\ pc = "start"
    /\ item.kind = "interface"
    /\ section' = generateInterface(item, SecSource, {})
    /\ pc' = "done"
    /\ UNCHANGED <<item, anchorVars, genVars, docVars, parseVars, runVars>>

GenerateTypeAlias ==
    /\ pc = "start"
    /\ item.kind = "type"
    /\ section' = generateTypeAlias(item, SecSource, {})
    /\ pc' = "done"
    /\ UNCHANGED <<item, anchorVars, genVars, docVars, parseVars, runVars>>

GenerateFunction ==
    /\ pc = "start"
    /\ item.kind = "function"
    /\ section' = generateFunction(item, SecSource, {})
    /\ pc' = "done"
    /\ UNCHANGED <<item, anchorVars, genVars, docVars, parseVars, runVars>>

NextSections == GenerateInterface \/ GenerateTypeAlias \/ GenerateFunction

SpecSections == InitSections /\ [][NextSections]_vars

\* ---------------------------------------------------------------------------
\* cli.ts: run, called by the action handler of the program
\* A matched file is [filePath, readable, tree]: parseFile throws on a file
\* that is not readable and returns parseFile(filePath, tree) otherwise.
\* ---------------------------------------------------------------------------
NoFilesFound == <<"N", "o", " ", "f", "i", "l", "e", "s">>

NoExportedTypes == <<"N", "o", " ", "t", "y", "p", "e", "s">>

generateMarkdown(fs, t) ==
    LET ifaces == poolInterfaces(fs)
        aliases == poolTypeAliases(fs)
        fns == poolFunctions(fs)
        dups == findDuplicateNames(
                    itemNames(ifaces) \o itemNames(aliases) \o itemNames(fns))
    IN  join(markdownLines(t, ifaces, aliases, fns, dups), <<"\n">>)

\* a loop that keeps every file it parsed
contributesAlways(p) == TRUE

\* the test before parsedFiles.push
contributes(p) ==
    Len(p.interfaces) > 0 \/ Len(p.typeAliases) > 0 \/ Len(p.functions) > 0

RunInterface(exported) ==
    [kind |-> "interface", exported |-> exported, name |-> <<"A">>,
     jsDocs |-> <<>>, members |-> <<>>, extendsTexts |-> <<>>]

RunArrow ==
    [kind |-> "variable", exported |-> TRUE, jsDocs |-> <<>>,
     declarations |-> << [Initializer("arrow") EXCEPT !.name = <<"f">>] >>]

RunTrees == { <<>>, <<RunInterface(FALSE)>>, <<RunInterface(TRUE)>>, <<RunArrow>> }

RunContents ==
    { [readable |-> FALSE, tree |-> <<>>] } \cup [readable : {TRUE}, tree : RunTrees]

\* glob is called with absolute: true; the i-th match is /f<i>.ts
RunPath(i) == <<"/", "f", DigitChars[i + 1], ".", "t", "s">>

RunOutputs == { None, <<"o", ".", "m", "d">> }

InitRun ==
    /\ pc = "start"
    /\ \E n \in 0..MaxMatched :
         \E contents \in [1..n -> RunContents] :
            matched = [i \in 1..n |->
                          [filePath |-> RunPath(i),
                           readable |-> contents[i].readable,
                           tree |-> contents[i].tree]]
    /\ outputOption \in RunOutputs
    /\ cursor = 0
    /\ parsedFiles = <<>>
    /\ parseCalls = <<>>
    /\ stderr = <<>>
    /\ handed = <<>>
    /\ written = <<>>
    /\ exitCode = None
    /\ AnchorIdle
    /\ GenIdle
    /\ DocIdle
    /\ ParseIdle
    /\ SecIdle

Message(kind, arg) == [kind |-> kind, arg |-> arg]

\* glob, the test of files.length and the first message
RunGlob ==
    /\ pc = "start"
    /\ IF Len(matched) = 0
       THEN /\ stderr' = <<Message("error", NoFilesFound)>>
            /\ exitCode' = <<"1">>
            /\ pc' = "done"
       ELSE /\ stderr' = <<Message("found", <<Len(matched)>>)>>
            /\ exitCode' = exitCode
            /\ pc' = "parsing"
    /\ UNCHANGED <<matched, outputOption, cursor, parsedFiles, parseCalls,
                   handed, written, anchorVars, genVars, docVars, parseVars,
                   secVars>>

\* one turn of the loop over the files, its try and its catch
RunParseNext ==
    /\ pc = "parsing"
    /\ cursor < Len(matched)
    /\ LET file == matched[cursor + 1]
       IN  /\ parseCalls' = Append(parseCalls, file.filePath)
           /\ IF file.readable
              THEN /\ parsedFiles' =
                        IF contributes(parseFile(file.filePath, file.tree))
                        THEN Append(parsedFiles, parseFile(file.filePath, file.tree))
                        ELSE parsedFiles
                   /\ stderr' = stderr
              ELSE /\ parsedFiles' = parsedFiles
                   /\ stderr' = Append(stderr, Message("warning", file.filePath))
    /\ cursor' = cursor + 1
    /\ pc' = "parsing"
    /\ UNCHANGED <<matched, outputOption, handed, written, exitCode, anchorVars,
                   genVars, docVars, parseVars, secVars>>

\* the lengths printed after the loop
RunTotals ==
    << Len(parsedFiles),
       Len(poolInterfaces(parsedFiles)),
       Len(poolTypeAliases(parsedFiles)),
       Len(poolFunctions(parsedFiles)) >>

\* after the loop: the test of parsedFiles.length, generateMarkdown and the
\* output; writeFileSync either writes the file or throws, and what run throws
\* the action handler prints before it exits with 1
RunFinish ==
    /\ pc = "parsing"
    /\ cursor = Len(matched)
    /\ IF Len(parsedFiles) = 0
       THEN /\ stderr' = Append(stderr, Message("error", NoExportedTypes))
            /\ handed' = handed
            /\ written' = written
            /\ exitCode' = <<"1">>
       ELSE /\ handed' = Append(handed, parsedFiles)
            /\ IF outputOption = None
               THEN /\ written' = Append(written,
                            [to |-> <<"stdout">>,
                             text |-> generateMarkdown(parsedFiles, DefaultTitle)])
                    /\ stderr' = Append(stderr, Message("parsed", RunTotals))
                    /\ exitCode' = <<"0">>
               ELSE \E writes \in BOOLEAN :
                      IF writes
                      THEN /\ written' = Append(written,
                                   [to |-> outputOption,
                                    text |-> generateMarkdown(parsedFiles, DefaultTitle)])
                           /\ stderr' = stderr \o <<Message("parsed", RunTotals),
                                                    Message("wrote", outputOption)>>
                           /\ exitCode' = <<"0">>
                      ELSE /\ written' = written
                           /\ stderr' = stderr \o <<Message("parsed", RunTotals),
                                                    Message("error", outputOption)>>
                           /\ exitCode' = <<"1">>
    /\ pc' = "done"
    /\ UNCHANGED <<matched, outputOption, cursor, parsedFiles, parseCalls,
                   anchorVars, genVars, docVars, parseVars, secVars>>

NextRun == RunGlob \/ RunParseNext \/ RunFinish

SpecRun == InitRun /\ [][NextRun]_vars

\* ---------------------------------------------------------------------------
\* toAnchor on its own: the argument is any string over AnchorAlphabet
\* ---------------------------------------------------------------------------
AnchorAlphabet == {"a", "C", "7", "-", ".", " "}

StringsUpTo(alphabet, n) == UNION { [1..k -> alphabet] : k \in 0..n }

InitAnchor ==
    /\ pc = "start"
    /\ anchorIn \in StringsUpTo(AnchorAlphabet, MaxLen)
    /\ anchorOut = None
    /\ anchorCalls = 0
    /\ GenIdle
    /\ DocIdle
    /\ ParseIdle
    /\ SecIdle
    /\ RunIdle

\* toAnchor(s), then toAnchor of the result
ToAnchor ==
    /\ anchorCalls < MaxCalls
    /\ anchorOut' = toAnchor(IF anchorCalls = 0 THEN anchorIn ELSE anchorOut)
    /\ anchorCalls' = anchorCalls + 1
    /\ pc' = "done"
    /\ UNCHANGED <<anchorIn, genVars, docVars, parseVars, secVars, runVars>>

NextAnchor == ToAnchor

SpecAnchor == InitAnchor /\ [][NextAnchor]_vars

\* ===========================================================================
\* Properties
\* ===========================================================================
\* the pooled items of generateMarkdown, all kinds together
Pooled == allInterfaces \o allTypeAliases \o allFunctions

displayNameOf(p) == getDisplayName(p.item.name, p.sourceFile, duplicateNames)

anchorOf(p) == getAnchor(p.item.name, p.sourceFile, duplicateNames)

\* the items of the input files, each named by file, kind and position
ItemsOf(f, k) ==
    CASE k = "interface" -> files[f].interfaces
      [] k = "type" -> files[f].typeAliases
      [] k = "function" -> files[f].functions

InputItems ==
    UNION { { [file |-> f, kind |-> k, idx |-> i] : i \in 1..Len(ItemsOf(f, k)) } :
            f \in 1..Len(files), k \in {"interface", "type", "function"} }

ItemAt(t) == ItemsOf(t.file, t.kind)[t.idx]

Occurrences(n) == Cardinality({ t \in InputItems : ItemAt(t).name = n })

FileBaseName(t) == basename(files[t.file].filePath)

CallSuffix(t) == IF t.kind = "function" THEN <<"(", ")">> ELSE <<>>

TocLink(display, anchor) ==
    <<"-", " ", "[">> \o display \o <<"]", "(", "#">> \o anchor \o <<")">>

Heading2(display) == <<"#", "#", " ">> \o display

\* x is one of the lines ls
HasLine(ls, x) == \E i \in 1..Len(ls) : ls[i] = x

\* C1: any two distinct pooled items that share a name get different display
\* names and different anchors, whatever their files and kinds.
C1_SameNameDistinguished ==
    pc = "done" =>
        \A i, j \in 1..Len(Pooled) :
            (i # j /\ Pooled[i].item.name = Pooled[j].item.name) =>
                /\ displayNameOf(Pooled[i]) # displayNameOf(Pooled[j])
                /\ anchorOf(Pooled[i]) # anchorOf(Pooled[j])

C2_Display(t) ==
    IF Occurrences(ItemAt(t).name) > 1
    THEN ItemAt(t).name \o <<" ", "(">> \o FileBaseName(t) \o <<")">>
    ELSE ItemAt(t).name

C2_Anchor(t) ==
    IF Occurrences(ItemAt(t).name) > 1
    THEN toAnchor(ItemAt(t).name \o <<"-">> \o FileBaseName(t))
    ELSE toAnchor(ItemAt(t).name)

\* C2: an item whose name occurs more than once among all interface, type-alias
\* and function names of all files is rendered as "name (fileBaseName)" with
\* the anchor toAnchor("name-fileBaseName"); an item whose name occurs once is
\* rendered under its bare name with the anchor toAnchor(name).  Both the
\* table-of-contents link and the section heading carry that display name.
C2_DisplayAndAnchorByOccurrence ==
    pc = "done" =>
        \A t \in InputItems :
            /\ HasLine(lines, TocLink(C2_Display(t) \o CallSuffix(t), C2_Anchor(t)))
            /\ HasLine(lines, Heading2(C2_Display(t) \o CallSuffix(t)))

\* Config in a.ts and in b.ts next to a name that occurs once, rendered
C2_Witness ==
    /\ pc = "done"
    /\ \E t, u, v \in InputItems :
        /\ t.file # u.file
        /\ t.kind # u.kind
        /\ ItemAt(t).name = ItemAt(u).name
        /\ Occurrences(ItemAt(v).name) = 1
        /\ C2_Anchor(t) = <<"c", "f", "-", "a", "-", "t", "s">>
        /\ C2_Anchor(u) = <<"c", "f", "-", "b", "-", "t", "s">>

C3_Lower(c) ==
    CASE c = "A" -> "a" [] c = "B" -> "b" [] c = "C" -> "c" [] c = "D" -> "d"
      [] c = "E" -> "e" [] c = "F" -> "f" [] c = "G" -> "g" [] c = "H" -> "h"
      [] c = "I" -> "i" [] c = "J" -> "j" [] c = "K" -> "k" [] c = "L" -> "l"
      [] c = "M" -> "m" [] c = "N" -> "n" [] c = "O" -> "o" [] c = "P" -> "p"
      [] c = "Q" -> "q" [] c = "R" -> "r" [] c = "S" -> "s" [] c = "T" -> "t"
      [] c = "U" -> "u" [] c = "V" -> "v" [] c = "W" -> "w" [] c = "X" -> "x"
      [] c = "Y" -> "y" [] c = "Z" -> "z" [] OTHER -> c

C3_Class ==
    {"a","b","c","d","e","f","g","h","i","j","k","l","m","n","o","p","q","r",
     "s","t","u","v","w","x","y","z","0","1","2","3","4","5","6","7","8","9"}

C3_Expected(s) ==
    LET low == [i \in 1..Len(s) |-> C3_Lower(s[i])]
        outside(i) == low[i] \notin C3_Class
        \* a run is represented by its first character
        kept == SelectSeq([i \in 1..Len(s) |-> i],
                          LAMBDA i : ~outside(i) \/ i = 1 \/ ~outside(i - 1))
    IN  [k \in 1..Len(kept) |-> IF outside(kept[k]) THEN "-" ELSE low[kept[k]]]

\* C3: toAnchor(s) is s lower-cased with every maximal run of characters
\* outside [a-z0-9] replaced by one hyphen; the result holds only characters of
\* [a-z0-9-], never two hyphens in a row, and toAnchor leaves it unchanged.
C3_ToAnchorNormalises ==
    anchorCalls >= 1 =>
        /\ anchorOut = C3_Expected(anchorIn)
        /\ \A i \in 1..Len(anchorOut) :
            /\ anchorOut[i] \in C3_Class \cup {"-"}
            /\ i > 1 => ~(anchorOut[i] = "-" /\ anchorOut[i - 1] = "-")

\* an upper-case letter followed by a run of two, anchored twice
C3_Witness ==
    /\ anchorCalls = 2
    /\ anchorIn = <<"C", ".", " ">>
    /\ anchorOut = <<"c", "-">>

NonBlank(ls) == SelectSeq(ls, LAMBDA l : l # <<>>)

FirstIndex(ls, x) == CHOOSE i \in 1..Len(ls) : ls[i] = x /\ \A j \in 1..(i - 1) : ls[j] # x

C10_Links(pooled, suffix) ==
    [i \in 1..Len(pooled) |->
        TocLink(displayNameOf(pooled[i]) \o suffix, anchorOf(pooled[i]))]

C10_Subsection(heading, pooled, suffix) ==
    IF pooled = <<>> THEN <<>> ELSE <<heading>> \o C10_Links(pooled, suffix)

\* C10: the document starts with the level-1 title heading ("API Reference"
\* without a title); it has a "Table of Contents" section exactly when some
\* interface, type alias or function exists; the section lists Interfaces,
\* Types, Functions in that order, each present exactly when its kind has an
\* item, each entry a link of display name (followed by "()" for a function)
\* and anchor, and the section ends with a horizontal rule.
C10_TitleAndContents ==
    pc = "done" =>
        /\ lines[1] = <<"#", " ">> \o (IF title = None THEN DefaultTitle ELSE title)
        /\ HasLine(lines, TocHeading) <=> (InputItems # {})
        /\ InputItems # {} =>
            /\ FirstIndex(lines, TocHeading) = 3
            /\ HasLine(lines, Rule)
            /\ NonBlank(SubSeq(lines, 4, FirstIndex(lines, Rule))) =
                   C10_Subsection(TocInterfaces, allInterfaces, <<>>)
                   \o C10_Subsection(TocTypes, allTypeAliases, <<>>)
                   \o C10_Subsection(TocFunctions, allFunctions, <<"(", ")">>)
                   \o <<Rule>>

\* all three kinds present under the default title
C10_Witness ==
    /\ pc = "done"
    /\ title = None
    /\ allInterfaces # <<>>
    /\ allTypeAliases # <<>>
    /\ allFunctions # <<>>
    /\ lines[3] = TocHeading

\* no item at all: the title only
C10_WitnessEmpty ==
    /\ pc = "done"
    /\ Len(files) > 0
    /\ InputItems = {}
    /\ Len(lines) = 2

KindRank(k) == CASE k = "interface" -> 1 [] k = "type" -> 2 [] k = "function" -> 3

\* t is rendered before u: by kind, then by file, then by position in the file
C11_Before(t, u) ==
    \/ KindRank(t.kind) < KindRank(u.kind)
    \/ t.kind = u.kind /\ t.file < u.file
    \/ t.kind = u.kind /\ t.file = u.file /\ t.idx < u.idx

\* the place of t among the rendered items
C11_Place(t) == 1 + Cardinality({ u \in InputItems : C11_Before(u, t) })

StartsWith(l, prefix) ==
    Len(l) >= Len(prefix) /\ \A i \in 1..Len(prefix) : l[i] = prefix[i]

\* the lines of the table of contents and the lines after it
C11_ContentsLines ==
    IF InputItems = {} THEN <<>> ELSE SubSeq(lines, 4, FirstIndex(lines, Rule))

C11_SectionLines ==
    IF InputItems = {} THEN SubSeq(lines, 3, Len(lines))
    ELSE SubSeq(lines, FirstIndex(lines, Rule) + 1, Len(lines))

\* C11: one section per pooled item, all interface sections first, then the
\* type-alias sections, then the function sections; within a kind the items of
\* an earlier file precede those of a later file and the items of one file keep
\* their order; the entries of the table of contents follow the same order.
C11_SectionsInPooledOrder ==
    pc = "done" =>
        LET n == Cardinality(InputItems)
            pooled == Pooled
            headings == SelectSeq(C11_SectionLines,
                                  LAMBDA l : StartsWith(l, <<"#", "#", " ">>))
            links == SelectSeq(C11_ContentsLines,
                               LAMBDA l : StartsWith(l, <<"-", " ", "[">>))
        IN  /\ Len(pooled) = n
            /\ Len(headings) = n
            /\ Len(links) = n
            /\ Len(SelectSeq(C11_SectionLines, LAMBDA l : l = Rule)) = n
            /\ \A t \in InputItems :
                  LET k == C11_Place(t)
                  IN  /\ pooled[k] = [item |-> ItemAt(t),
                                      sourceFile |-> FileBaseName(t)]
                      /\ headings[k] = Heading2(C2_Display(t) \o CallSuffix(t))
                      /\ links[k] = TocLink(C2_Display(t) \o CallSuffix(t),
                                            C2_Anchor(t))

\* two files of different base names, two interfaces and two functions in each
C11_Witness ==
    /\ pc = "done"
    /\ Len(files) = 2
    /\ Len(files[1].interfaces) = 2
    /\ Len(files[2].interfaces) = 2
    /\ Len(files[1].functions) = 2
    /\ Len(files[2].functions) = 2
    /\ Len(allInterfaces) = 4
    /\ allInterfaces[2].sourceFile = basename(files[1].filePath)
    /\ allInterfaces[3].sourceFile = basename(files[2].filePath)
    /\ allInterfaces[2].sourceFile # allInterfaces[3].sourceFile
    /\ Len(SelectSeq(lines, LAMBDA l : l = Rule)) = 9

C16_AnchorsUnique ==
    pc = "done" =>
        \A i, j \in 1..Len(Pooled) :
            i # j => anchorOf(Pooled[i]) # anchorOf(Pooled[j])

\* the block the comment resolver is documented to read
LastBlock == jsDocs[Len(jsDocs)]

IsSuffix(v, w) == Len(v) <= Len(w) /\ SubSeq(w, Len(w) - Len(v) + 1, Len(w)) = v

\* s without its leading and trailing white space, by the positions of its
\* first and last other character
Trimmed(s) ==
    LET inked == { i \in 1..Len(s) : s[i] \notin WhiteSpace }
    IN  IF inked = {} THEN <<>>
        ELSE SubSeq(s, CHOOSE i \in inked : \A j \in inked : i <= j,
                       CHOOSE i \in inked : \A j \in inked : j <= i)

C8_WithoutDashSpace(c) ==
    IF Len(c) >= 2 /\ SubSeq(c, 1, 2) = <<"-", " ">> THEN SubSeq(c, 3, Len(c)) ELSE c

\* C8: a parameter tag of the last block is recorded only when its name has no
\* dot and it has comment text; no parameter is ever recorded with an empty
\* description; the stored text is the trimmed comment without a leading "- ".
C8_ParamsRecordedWithText ==
    "params" \in docCalls =>
        \A n \in DOMAIN paramDescriptions :
            /\ ~includesDot(n)
            /\ paramDescriptions[n] # <<>>
            /\ \E k \in 1..Len(LastBlock.tags) :
                /\ LastBlock.tags[k].name = n
                /\ LastBlock.tags[k].commentText # None
                /\ paramDescriptions[n] =
                       C8_WithoutDashSpace(Trimmed(LastBlock.tags[k].commentText))

\* C9: description and parameter descriptions come from the last block only:
\* the description is its summary trimmed, absent when the summary is empty,
\* blank or missing or when there is no block; every recorded parameter is a
\* parameter tag of the last block, so an earlier block never contributes.
C9_LastBlockOnly ==
    /\ "description" \in docCalls =>
          description =
              IF jsDocs = <<>> THEN None
              ELSE IF LastBlock.description = None THEN None
              ELSE IF Trimmed(LastBlock.description) = <<>> THEN None
              ELSE Trimmed(LastBlock.description)
    /\ "params" \in docCalls =>
          /\ jsDocs = <<>> => DOMAIN paramDescriptions = {}
          /\ \A n \in DOMAIN paramDescriptions :
                \E k \in 1..Len(LastBlock.tags) :
                    /\ LastBlock.tags[k].tagName = "param"
                    /\ LastBlock.tags[k].name = n
                    /\ LastBlock.tags[k].commentText # None
                    /\ IsSuffix(paramDescriptions[n],
                                Trimmed(LastBlock.tags[k].commentText))

\* an earlier block with a summary and a parameter tag, a last block with a
\* blank summary and no parameter tag: nothing is taken from the earlier one
C9_Witness ==
    /\ docCalls = {"description", "params"}
    /\ Len(jsDocs) = 2
    /\ jsDocs[1].description = <<" ", "s", "\n">>
    /\ jsDocs[1].tags = <<TagXDashD>>
    /\ jsDocs[2].description = <<" ">>
    /\ jsDocs[2].tags = <<TagReturns>>
    /\ description = None
    /\ DOMAIN paramDescriptions = {}

\* the names under which a statement can show up in a ParsedFile
DeclaredNames(st) ==
    IF st.kind = "variable"
    THEN { st.declarations[j].name : j \in 1..Len(st.declarations) }
    ELSE IF st.name = None THEN {Anonymous} ELSE {st.name}

ParsedNames(items) == { items[k].name : k \in 1..Len(items) }

\* the position of the ParsedFunction with the given name
FunctionIndex(name) ==
    CHOOSE k \in 1..Len(parsed.functions) : parsed.functions[k].name = name

\* the exported bindings of the file: <<statement index, binding index>>
ExportedBindings ==
    UNION { { <<i, j>> : j \in 1..Len(syntaxTree[i].declarations) } :
            i \in { k \in 1..Len(syntaxTree) :
                       syntaxTree[k].kind = "variable" /\ syntaxTree[k].exported } }

Binding(b) == syntaxTree[b[1]].declarations[b[2]]

FunctionsNamed(name) ==
    { k \in 1..Len(parsed.functions) : parsed.functions[k].name = name }

\* C4: the three lists of the ParsedFile hold exported declarations only; a
\* declaration that is not exported appears in none of them, documented or not.
C4_OnlyExported ==
    pc = "done" =>
        /\ \A k \in 1..Len(parsed.interfaces) :
              \E i \in 1..Len(syntaxTree) :
                  /\ syntaxTree[i].kind = "interface"
                  /\ syntaxTree[i].exported
                  /\ parsed.interfaces[k].name \in DeclaredNames(syntaxTree[i])
        /\ \A k \in 1..Len(parsed.typeAliases) :
              \E i \in 1..Len(syntaxTree) :
                  /\ syntaxTree[i].kind = "typeAlias"
                  /\ syntaxTree[i].exported
                  /\ parsed.typeAliases[k].name \in DeclaredNames(syntaxTree[i])
        /\ \A k \in 1..Len(parsed.functions) :
              \E i \in 1..Len(syntaxTree) :
                  /\ syntaxTree[i].kind \in {"function", "variable"}
                  /\ syntaxTree[i].exported
                  /\ parsed.functions[k].name \in DeclaredNames(syntaxTree[i])
        /\ \A i \in 1..Len(syntaxTree) :
              ~syntaxTree[i].exported =>
                  DeclaredNames(syntaxTree[i])
                  \cap (ParsedNames(parsed.interfaces)
                        \cup ParsedNames(parsed.typeAliases)
                        \cup ParsedNames(parsed.functions)) = {}

\* a documented interface that is not exported next to an exported one
C4_Witness ==
    /\ pc = "done"
    /\ Len(syntaxTree) = 2
    /\ syntaxTree[1].kind = "interface"
    /\ ~syntaxTree[1].exported
    /\ syntaxTree[1].jsDocs # <<>>
    /\ syntaxTree[2].kind = "interface"
    /\ syntaxTree[2].exported
    /\ Len(parsed.interfaces) = 1

\* C5: the properties of a ParsedInterface list the members of the interface,
\* plain properties and method signatures together, in declaration order.
C5_MembersInDeclarationOrder ==
    pc = "done" =>
        \A k \in 1..Len(parsed.interfaces) :
            \E i \in 1..Len(syntaxTree) :
                /\ syntaxTree[i].kind = "interface"
                /\ syntaxTree[i].name = parsed.interfaces[k].name
                /\ [m \in 1..Len(parsed.interfaces[k].properties) |->
                        parsed.interfaces[k].properties[m].name]
                   = [m \in 1..Len(syntaxTree[i].members) |->
                        syntaxTree[i].members[m].name]

\* C6: an exported arrow-function binding declared before an exported function
\* declaration precedes it in ParsedFile.functions.
C6_FunctionsInDeclarationOrder ==
    pc = "done" =>
        \A b \in ExportedBindings :
            \A i \in 1..Len(syntaxTree) :
                (/\ Binding(b).initKind = "arrow"
                 /\ syntaxTree[i].kind = "function"
                 /\ syntaxTree[i].exported
                 /\ syntaxTree[i].name # None
                 /\ b[1] < i)
                => FunctionIndex(Binding(b).name) < FunctionIndex(syntaxTree[i].name)

\* C7 as stated: every exported binding whose initializer is an arrow function
\* or another anonymous function expression yields exactly one ParsedFunction
\* named after the binding.
C7_AnyFunctionExpressionParsed ==
    pc = "done" =>
        \A b \in ExportedBindings :
            Binding(b).initKind \in {"arrow", "functionExpression"} =>
                Cardinality(FunctionsNamed(Binding(b).name)) = 1

C7_AsDeclaration(b) ==
    [kind |-> "function", exported |-> TRUE,
     name |-> Binding(b).name,
     jsDocs |-> syntaxTree[b[1]].jsDocs,
     params |-> Binding(b).params,
     returnType |-> Binding(b).returnType,
     isAsync |-> Binding(b).isAsync]

\* C7 amended: an exported binding whose initializer is an arrow function yields
\* exactly one ParsedFunction named after the binding, equal to what a function
\* declaration with the same name, JSDoc blocks, parameters, return type and
\* async marker yields; a binding with any other initializer yields none.
C7_ArrowBindingsParsed ==
    pc = "done" =>
        \A b \in ExportedBindings :
            IF Binding(b).initKind = "arrow"
            THEN /\ Cardinality(FunctionsNamed(Binding(b).name)) = 1
                 /\ parsed.functions[FunctionIndex(Binding(b).name)]
                        = parseFunctionDeclaration(C7_AsDeclaration(b))
            ELSE FunctionsNamed(Binding(b).name) = {}

\* a documented statement exporting an arrow function and a function expression
C7_Witness ==
    /\ pc = "done"
    /\ \E b, c \in ExportedBindings :
        /\ b[1] = c[1]
        /\ syntaxTree[b[1]].jsDocs # <<>>
        /\ Binding(b).initKind = "arrow"
        /\ Binding(c).initKind = "functionExpression"
        /\ FunctionsNamed(Binding(b).name) # {}
        /\ FunctionsNamed(Binding(c).name) = {}

\* the number of lines generateInterface emits before the table or the marker
C12_Preamble ==
    2 + (IF item.extends # NoList THEN 2 ELSE 0)
      + (IF item.description # None THEN 2 ELSE 0)

C12_Body == SubSeq(section, C12_Preamble + 1, Len(section))

C12_TableLines == SelectSeq(section, LAMBDA l : StartsWith(l, <<"|">>))

\* C12: an interface without properties is rendered with the line
\* "*No properties*" and no table line at all; an interface with properties is
\* rendered with the table header, the divider and one row per property in list
\* order, and without "*No properties*".
C12_NoPropertiesOrTable ==
    (pc = "done" /\ item.kind = "interface") =>
        IF item.properties = <<>>
        THEN /\ C12_Body = <<NoProperties, <<>>, Rule>>
             /\ C12_TableLines = <<>>
        ELSE /\ Len(C12_Body) = Len(item.properties) + 4
             /\ C12_Body[1] = PropertiesHeader
             /\ C12_Body[2] = PropertiesDivider
             /\ \A k \in 1..Len(item.properties) :
                    StartsWith(C12_Body[2 + k],
                               <<"|", " ">> \o item.properties[k].name \o <<" ", "|">>)
             /\ Len(C12_TableLines) = Len(item.properties) + 2
             /\ NoProperties \notin Range(section)

\* an interface with an extends clause and a description and no property
C12_Witness ==
    /\ pc = "done"
    /\ item.kind = "interface"
    /\ item.properties = <<>>
    /\ item.extends # NoList
    /\ item.description # None
    /\ section[7] = NoProperties

\* the records whose rows the section holds
C13_Records ==
    CASE item.kind = "interface" -> item.properties
      [] item.kind = "function" -> item.parameters
      [] OTHER -> <<>>

\* the data rows of the table of the section
C13_Rows ==
    SelectSeq(section, LAMBDA l : /\ StartsWith(l, <<"|", " ">>)
                                  /\ l \notin {PropertiesHeader, ParametersHeader})

\* t with a backslash put before each pipe, by the position every character
\* of t takes in the result
C13_Escaped(t) ==
    LET pipesUpTo(i) == Cardinality({ j \in 1..i : t[j] = "|" })
        at(k) == { i \in 1..Len(t) : i + pipesUpTo(i) = k }
    IN  [k \in 1..(Len(t) + pipesUpTo(Len(t))) |->
            IF at(k) = {} THEN "\\" ELSE t[CHOOSE i \in at(k) : TRUE]]

\* the text of a row between its first and its last backtick
C13_TypeCell(row) ==
    LET ticks == { i \in 1..Len(row) : row[i] = Backtick }
    IN  SubSeq(row, (CHOOSE i \in ticks : \A j \in ticks : i <= j) + 1,
                    (CHOOSE i \in ticks : \A j \in ticks : j <= i) - 1)

Contains(l, sub) ==
    \E i \in 1..(Len(l) + 1 - Len(sub)) : SubSeq(l, i, i + Len(sub) - 1) = sub

\* the line of the signature: the one after the opening fence
C13_SignatureLine == section[FirstIndex(section, FenceOpen) + 1]

\* C13: the type cell of every row of a properties or parameters table is the
\* type string with each pipe replaced by backslash pipe and nothing else
\* changed, so every pipe of the cell follows a backslash; the Returns line
\* carries the return type escaped the same way; the signature block carries
\* the parameter types and the return type as they are.
C13_TypePipesEscaped ==
    pc = "done" =>
        /\ Len(C13_Rows) = Len(C13_Records)
        /\ \A k \in 1..Len(C13_Records) :
              LET cell == C13_TypeCell(C13_Rows[k])
              IN  /\ cell = C13_Escaped(C13_Records[k].type)
                  /\ \A i \in 1..Len(cell) :
                        cell[i] = "|" => (i > 1 /\ cell[i - 1] = "\\")
        /\ item.kind = "function" =>
              /\ section[Len(section) - 2]
                     = <<"*","*","R","e","t","u","r","n","s",":","*","*"," ",Backtick>>
                       \o C13_Escaped(item.returnType) \o <<Backtick>>
              /\ "\\" \notin Range(C13_SignatureLine)
              /\ Contains(C13_SignatureLine, <<")", ":", " ">> \o item.returnType)
              /\ \A k \in 1..Len(item.parameters) :
                    Contains(C13_SignatureLine,
                             <<":", " ">> \o item.parameters[k].type)

\* a function with two parameters of a union type, returning a union type
C13_Witness ==
    /\ pc = "done"
    /\ item.kind = "function"
    /\ Len(item.parameters) = 2
    /\ item.parameters[1].type = <<"s", "|", "n", "|", "u">>
    /\ item.returnType = <<"s", "|", "n", "|", "u">>
    /\ Len(C13_Rows) = 2
    /\ C13_TypeCell(C13_Rows[1]) = <<"s", "\\", "|", "n", "\\", "|", "u">>

C17_UnescapedPipes(row) ==
    Cardinality({ i \in 1..Len(row) :
                    row[i] = "|" /\ (i = 1 \/ row[i - 1] # "\\") })

\* C17: every data row of a properties or parameters table is one line of
\* four cells: it holds exactly five pipes that do not follow a backslash.
C17_RowsWellFormed ==
    pc = "done" =>
        \A k \in 1..Len(C13_Rows) :
            /\ "\n" \notin Range(C13_Rows[k])
            /\ C17_UnescapedPipes(C13_Rows[k]) = 5

\* the tree declares something parseFile extracts
C15_HasExport(tree) ==
    \E i \in 1..Len(tree) :
        /\ tree[i].exported
        /\ \/ tree[i].kind \in {"interface", "typeAlias", "function"}
           \/ /\ tree[i].kind = "variable"
              /\ \E j \in 1..Len(tree[i].declarations) :
                    tree[i].declarations[j].initKind = "arrow"

C15_Paths(keep(_)) ==
    LET kept == SelectSeq([i \in 1..Len(matched) |-> i], keep)
    IN  [k \in 1..Len(kept) |-> matched[kept[k]].filePath]

C15_Contributing ==
    C15_Paths(LAMBDA i : matched[i].readable /\ C15_HasExport(matched[i].tree))

C15_Warnings == SelectSeq(stderr, LAMBDA m : m.kind = "warning")

\* C15: at the end of a run over matched files, parseFile was called on every
\* file in order, each file whose parse threw is reported by one warning and
\* left out, and generateMarkdown got exactly the files that parsed and hold an
\* item, in input order.  When no file matched or no file holds an item the run
\* ends in an error with generateMarkdown not called and nothing written;
\* otherwise generateMarkdown is called once and its result is written, the
\* run ending in an error only if the write of the output file itself fails.
C15_WarnExcludeOrFatal ==
    exitCode # None =>
        /\ Len(matched) > 0 =>
              /\ parseCalls = C15_Paths(LAMBDA i : TRUE)
              /\ [k \in 1..Len(C15_Warnings) |-> C15_Warnings[k].arg]
                     = C15_Paths(LAMBDA i : ~matched[i].readable)
        /\ IF Len(matched) = 0 \/ Len(C15_Contributing) = 0
           THEN /\ exitCode = <<"1">>
                /\ Len(handed) = 0
                /\ Len(written) = 0
           ELSE /\ Len(handed) = 1
                /\ [k \in 1..Len(handed[1]) |-> handed[1][k].filePath]
                       = C15_Contributing
                /\ exitCode = <<"0">> => Len(written) = 1
                /\ exitCode = <<"1">> => (Len(written) = 0 /\ outputOption # None)

\* a file that cannot be parsed, then a file without exports, then a file
\* with an exported interface, printed to standard output
C15_Witness ==
    /\ exitCode = <<"0">>
    /\ Len(matched) = 3
    /\ ~matched[1].readable
    /\ matched[2].readable /\ ~C15_HasExport(matched[2].tree)
    /\ matched[3].readable /\ C15_HasExport(matched[3].tree)
    /\ Len(C15_Warnings) = 1
    /\ Len(parseCalls) = 3
    /\ Len(handed) = 1
    /\ Len(handed[1]) = 1
    /\ Len(written) = 1

====
